---- MODULE Spec2Model ----
(***************************************************************************)
(* State-synchronization layer of the Jarvis chat front-end                *)
(* (frontend/src/App.tsx): the session list, the active-session pointer,   *)
(* the visible message list, the live step buffer, the WebSocket channel   *)
(* with its reconnect timer, the asynchronous sendMessage invocations and  *)
(* the 'jarvis-sessions' document in localStorage.                         *)
(*                                                                         *)
(* One action is one React event handler, timer callback, socket callback  *)
(* or promise continuation, together with the effects React runs after the *)
(* render it causes (the save-sessions effect, the ref-sync effect).       *)
(***************************************************************************)
EXTENDS Integers, Sequences, FiniteSets, TLC

(* ---------------------------------------------------------------- bounds *)

\* Largest clock reading (milliseconds are abstracted to ticks).
MaxTime == 2
\* Longest session list the model builds.
MaxSessions == 2
\* Number of sendMessage invocations in one run.
MaxSends == 2
\* Number of step events the backend emits for one turn.
MaxSteps == 1
\* Number of times the socket fails or closes in one run.
MaxCloses == 2

(* ------------------------------------------------------ program constants *)

\* generateTitle / updateSession: messageContent.slice(0, 30)
TitleLen == 30

\* null of `string | null`
Null == "null"

\* title of a new session
NewChatTitle == "New Chat"

\* assistant text shown when the HTTP fallback fails
ConnectionErrorText == "Connection error. Please check if the backend is running."

\* assistant text when the HTTP reply carries neither response nor message
NoResponseText == "No response"

(* ------------------------------------------------------------ input sets *)

\* a message longer than TitleLen characters (34)
LongText == "Summarize the quarterly report now"

\* what the user can leave in the input box
Inputs == {"", " ", " Hi", LongText \o " "}

\* the one text the chat specifications type
ShortInputs == {" Hi"}

\* titles the rename modal can submit
RenameTitles == {"Renamed"}

\* {title: ...} bodies of a successful /api/chat/title reply
ServerTitles == {"AI Title", ""}

\* content of the response to turn i; the empty string is a legal content
Reply(i) == "Reply " \o ToString(i)

(* --------------------------------------------------------- pure functions *)

\* String.prototype.slice(0, n)
Slice(s, n) == IF Len(s) <= n THEN s ELSE SubSeq(s, 1, n)

\* String.prototype.trim()
RECURSIVE Trim(_)
Trim(s) ==
    IF Len(s) > 0 /\ SubSeq(s, 1, 1) = " " THEN Trim(SubSeq(s, 2, Len(s)))
    ELSE IF Len(s) > 0 /\ SubSeq(s, Len(s), Len(s)) = " "
         THEN Trim(SubSeq(s, 1, Len(s) - 1))
         ELSE s

\* Date.now().toString()
IdOf(t) == ToString(t)

\* Date.prototype.toJSON(): the wire form of a timestamp
ToISO(t) == "T" \o ToString(t)

\* new Date(iso): back to the structured time value
FromISO(w) == CHOOSE t \in 0..(MaxTime + 2) : ToISO(t) = w

\* one AgentStep of turn i
StepTypes == <<"thinking", "tool_call", "observation">>
AgentStep(i, k) ==
    [id |-> <<i, k>>, type |-> StepTypes[((k - 1) % 3) + 1], content |-> "step"]

\* the steps 1..n of turn i, in emission order
StepsOf(i, n) == [k \in 1..n |-> AgentStep(i, k)]

\* the ChatSession literal of createNewSession / sendMessage
NewSession(t) ==
    [id |-> IdOf(t), title |-> NewChatTitle, messages |-> <<>>,
     createdAt |-> t, updatedAt |-> t, pinned |-> FALSE]

\* the user Message literal of sendMessage (no steps key)
UserMsg(t, text) ==
    [id |-> IdOf(t), role |-> "user", content |-> text, timestamp |-> t]

\* the assistant Message literal of ws.onmessage / the HTTP fallback
AssistantMsg(id, t, text, steps) ==
    [id |-> id, role |-> "assistant", content |-> text, timestamp |-> t,
     steps |-> steps]

\* the assistant Message of the HTTP catch branch (no steps key)
ErrorMsg(t) ==
    [id |-> IdOf(t + 1), role |-> "assistant", content |-> ConnectionErrorText,
     timestamp |-> t]

(* ------------------------------------------------------ persistence codec *)

\* JSON.stringify of one Message: the Date becomes its ISO string
WireMessage(m) == [m EXCEPT !.timestamp = ToISO(m.timestamp)]

\* JSON.stringify of one ChatSession
WireSession(s) ==
    [s EXCEPT !.createdAt = ToISO(s.createdAt),
              !.updatedAt = ToISO(s.updatedAt),
              !.messages = [k \in DOMAIN s.messages |-> WireMessage(s.messages[k])]]

\* localStorage document kinds: no item, a JSON array, text JSON.parse rejects
NoDoc == [kind |-> "none", body |-> <<>>]
GarbageDoc == [kind |-> "garbage", body |-> <<>>]

\* a document JSON.parse accepts that is not an array (an object, a number)
NotListDoc == [kind |-> "object", body |-> <<>>]

\* an array whose entry has no `messages`
NoMessagesDoc ==
    [kind |-> "json",
     body |-> <<[id |-> "0", title |-> "Old chat", createdAt |-> "T0",
                 updatedAt |-> "T0", pinned |-> FALSE]>>]

\* the load effect's try block throws on this document: JSON.parse
\* rejects it, parsed.map is not a function, or s.messages.map is read
\* from undefined
LoadThrows(doc) ==
    \/ doc.kind \in {"garbage", "object"}
    \/ doc.kind = "json" /\ \E k \in DOMAIN doc.body : "messages" \notin DOMAIN doc.body[k]

\* JSON.stringify(sessions)
Serialize(ss) == [kind |-> "json", body |-> [k \in DOMAIN ss |-> WireSession(ss[k])]]

\* (mutant) message timestamps stay the strings of the document
ReviveMessageRaw(w) == w

\* the map() of the load effect: wire strings back to Dates
ReviveMessage(w) == [w EXCEPT !.timestamp = FromISO(w.timestamp)]

\* one session of the load effect's map()
ReviveSession(w) ==
    [w EXCEPT !.createdAt = FromISO(w.createdAt),
              !.updatedAt = FromISO(w.updatedAt),
              !.messages = [k \in DOMAIN w.messages |-> ReviveMessage(w.messages[k])]]

\* (mutant) entries without `messages` are taken over as they are
LoadSessionsLenient(doc) ==
    IF doc.kind = "json"
    THEN [k \in DOMAIN doc.body |->
             IF "messages" \in DOMAIN doc.body[k] THEN ReviveSession(doc.body[k])
             ELSE doc.body[k]]
    ELSE <<>>

\* load effect: no item or a document that throws leaves the list empty
LoadSessions(doc) ==
    IF doc.kind = "json" /\ ~LoadThrows(doc)
    THEN [k \in DOMAIN doc.body |-> ReviveSession(doc.body[k])]
    ELSE <<>>

\* (mutant) the effect writes the list whatever its length
SaveEffectAlways(ss, doc) == Serialize(ss)

\* save effect, run after a render in which `sessions` changed
SaveEffect(ss, doc) == IF Len(ss) > 0 THEN Serialize(ss) ELSE doc

(* ------------------------------------------------------------------ state *)

VARIABLES
    sessions,         \* useState<ChatSession[]>: the in-memory session list
    activeSessionId,  \* useState<string | null>
    messages,         \* useState<Message[]>: the visible message list
    input,            \* useState(''): the text in the input box
    isLoading,        \* useState(false): input affordance disabled
    currentSteps,     \* useState<AgentStep[]>: the live step buffer
    settings,         \* useState<Settings>
    storage,          \* localStorage item 'jarvis-sessions'
    wsState,          \* readyState of wsRef.current ("FAILED": closed by an
                      \* error, its close event not yet delivered)
    reconnectTimer,   \* number of pending setTimeout(connectWebSocket, 3000)
    isConnected,      \* useState(false): the status dot
    unmounted,        \* the cleanup of the WebSocket effect has run
    orphans,          \* live sockets wsRef no longer points to
    closures,         \* close events delivered so far
    attempts,         \* sockets created by the reconnect timer so far
    usersDoc,         \* localStorage item 'jarvis-users'
    currentUser,      \* localStorage item 'jarvis-current-user'
    user,             \* useState<string | null>: the signed-in user
    error,            \* LoginPage: useState(''), the message under the form
    sends,            \* the sendMessage invocations, in call order
    abandoned,        \* turns that were outstanding when the active session changed
    now,              \* last clock reading
    lastOp            \* the handler that ran last, with its arguments

vars == <<sessions, activeSessionId, messages, input, isLoading, currentSteps,
          settings, storage, wsState, reconnectTimer, isConnected, orphans,
          closures, attempts, usersDoc, currentUser, user, error, sends,
          abandoned, now, lastOp, unmounted>>

\* the connection bookkeeping only the socket callbacks write
conn == <<isConnected, orphans, closures, attempts>>

\* what only the login page writes
auth == <<usersDoc, currentUser, user, error>>

\* the main application is rendered (`!authLoading && user`), so its
\* handlers can be called
SignedIn == user # Null

\* (mutant) the ref keeps its initial value: no effect syncs it
activeSessionIdRefUnsynced == Null

\* activeSessionIdRef.current: the ref-sync effect runs after every render
\* that changed activeSessionId, before the next callback
activeSessionIdRef == activeSessionId

\* useState<Settings> initial value (the modelled fields)
InitialSettings == [voiceEnabled |-> TRUE, model |-> "llama-3.3-70b-versatile"]

\* what the settings panel can save
SettingsChoices ==
    [voiceEnabled : BOOLEAN, model : {"llama-3.3-70b-versatile", "gpt-4o"}]

\* `settings` as seen by ws.onmessage: the WebSocket effect has an empty
\* dependency list, so its callbacks close over the first render
WsClosureSettings == InitialSettings

\* a session a previous run of the application left in the store
SavedSession ==
    [id |-> IdOf(0), title |-> "Old chat",
     messages |-> <<UserMsg(0, "Old question"),
                    AssistantMsg(IdOf(0), 0, "Old answer", <<AgentStep(0, 1)>>)>>,
     createdAt |-> 0, updatedAt |-> 0, pinned |-> FALSE]

\* the 'jarvis-sessions' item found at startup
InitialDocs == {NoDoc, GarbageDoc, Serialize(<<SavedSession>>)}

\* the same, with every kind of malformed document
StoredDocs == InitialDocs \cup {NotListDoc, NoMessagesDoc}

\* clock readings a handler can observe
Clock == {t \in {now, now + 1} : t <= MaxTime}

Op(op, sid, turn, flag, text) ==
    [op |-> op, sid |-> sid, turn |-> turn, flag |-> flag, text |-> text]

\* indices of the sendMessage invocations whose request is outstanding
Outstanding == {i \in DOMAIN sends : sends[i].pc \in {"title", "ws", "http"}}

\* position of the first session with this id (sessions.find), 0 if absent
FindSession(ss, id) ==
    IF \E k \in DOMAIN ss : ss[k].id = id
    THEN CHOOSE k \in DOMAIN ss : ss[k].id = id /\ \A j \in 1..(k - 1) : ss[j].id # id
    ELSE 0

\* Array.prototype.filter
RECURSIVE RemoveId(_, _)
RemoveId(ss, id) ==
    IF ss = <<>> THEN <<>>
    ELSE IF Head(ss).id = id THEN RemoveId(Tail(ss), id)
         ELSE <<Head(ss)>> \o RemoveId(Tail(ss), id)

(* ------------------------------------------------------- login page data *)

\* useState<'signin' | 'create'>
Modes == {"signin", "create"}

\* what the user can type into the form
Usernames == {"", "ann", "bob"}
Passwords == {"", "    ", "abc", "abcd", "wxyz"}

\* the shortest password account creation accepts
MinPasswordLen == 4

\* the messages handleSubmit sets
FillInAllFields == "Please fill in all fields"
PasswordsDoNotMatch == "Passwords do not match"
PasswordTooShortText == "Password must be at least 4 characters"
UsernameExists == "Username already exists"
InvalidCredentials == "Invalid username or password"

\* the 'jarvis-users' item: absent, text JSON.parse rejects, or a map from
\* username to {password, createdAt}
NoUsers == [kind |-> "none", map |-> <<>>]
GarbageUsers == [kind |-> "garbage", map |-> <<>>]
UsersMap(m) == [kind |-> "json", map |-> m]

\* the map with one more entry
WithUser(m, u, entry) == [x \in (DOMAIN m) \cup {u} |-> IF x = u THEN entry ELSE m[x]]

\* a credential map a previous run left in the store
SavedUsers == WithUser(<<>>, "ann", [password |-> "abcd", createdAt |-> ToISO(0)])

\* the 'jarvis-users' item found when the login page opens
UsersDocs == {NoUsers, GarbageUsers, UsersMap(SavedUsers)}

(* ------------------------------------------------------------------- Init *)

\* The state after the first render and its mount effects: the load effect
\* has parsed the stored document, the save effect has run for the loaded
\* list, and connectWebSocket has created the first socket.
InitWith(docs, markers, userDocs) ==
    \E doc \in docs, marker \in markers, udoc \in userDocs :
        /\ sessions = LoadSessions(doc)
        /\ storage = SaveEffect(LoadSessions(doc), doc)
        /\ activeSessionId = Null
        /\ messages = <<>>
        /\ input = ""
        /\ isLoading = FALSE
        /\ currentSteps = <<>>
        /\ settings = InitialSettings
        /\ wsState = "CONNECTING"
        /\ reconnectTimer = 0
        /\ isConnected = FALSE
        /\ unmounted = FALSE
        /\ orphans = 0
        /\ closures = 0
        /\ attempts = 0
        /\ usersDoc = udoc
        /\ currentUser = marker
        /\ user = marker
        /\ error = ""
        /\ sends = <<>>
        /\ abandoned = {}
        /\ now = 1
        /\ lastOp = Op("init", Null, 0, LoadThrows(doc), doc.kind)

\* startup of a browser in which a user is signed in: the auth effect finds
\* the current-user marker and the main application is rendered
Init == InitWith(InitialDocs, {"guest"}, {NoUsers})

\* the same on any stored session document, the malformed ones included
InitLoad == InitWith(StoredDocs, {"guest"}, {NoUsers})

\* startup without a current-user marker: the login page is rendered
InitLogin == InitWith({NoDoc}, {Null}, UsersDocs)

\* every startup
InitAny == InitWith(StoredDocs, {Null, "guest"}, UsersDocs)

(* ------------------------------------------------------- session handlers *)

\* (mutant) the new session is put at the end of the list
PrependLast(s, ss) == Append(ss, s)

\* [newSession, ...prev]
Prepend(s, ss) == <<s>> \o ss

\* createNewSession
CreateNewSession ==
    \E t \in Clock :
        /\ Len(sessions) < MaxSessions
        /\ sessions' = Prepend(NewSession(t), sessions)
        /\ activeSessionId' = IdOf(t)
        /\ messages' = <<>>
        /\ currentSteps' = <<>>
        /\ input' = ""
        /\ storage' = SaveEffect(sessions', storage)
        /\ abandoned' = IF IdOf(t) # activeSessionId
                        THEN abandoned \cup Outstanding ELSE abandoned
        /\ now' = t
        /\ lastOp' = Op("create", IdOf(t), 0, FALSE, "")
        /\ SignedIn
        /\ UNCHANGED <<conn, auth, unmounted>>
        /\ UNCHANGED <<isLoading, settings, wsState, reconnectTimer, sends>>

\* all session ids the sidebar can name, and one that is in no list
AbsentId == "absent"
SessionIds == {sessions[k].id : k \in DOMAIN sessions} \cup {AbsentId}

\* (mutant) an id that is not in the list clears the active session
SelectAbsentClears ==
    /\ activeSessionId' = Null
    /\ messages' = <<>>
    /\ UNCHANGED <<currentSteps, input, isLoading, abandoned>>

\* selectSession when sessions.find returns undefined: `if (session)` has
\* no else branch
SelectAbsent ==
    UNCHANGED <<activeSessionId, messages, currentSteps, input, isLoading, abandoned>>

\* selectSession(sessionId)
SelectSession(id) ==
    LET k == FindSession(sessions, id) IN
    /\ IF k # 0
       THEN /\ activeSessionId' = id
            /\ messages' = sessions[k].messages
            /\ currentSteps' = <<>>
            /\ input' = ""
            /\ isLoading' = FALSE
            /\ abandoned' = IF id # activeSessionId
                            THEN abandoned \cup Outstanding ELSE abandoned
       ELSE SelectAbsent
    /\ lastOp' = Op("select", id, 0, k # 0, "")
    /\ SignedIn
    /\ UNCHANGED <<conn, auth, unmounted>>
    /\ UNCHANGED <<sessions, settings, storage, wsState, reconnectTimer, sends, now>>

\* (mutant) the first remaining session is made active
PointerAfterDeletePromote(rest) == IF rest = <<>> THEN Null ELSE rest[1].id

\* deleteSession on the active session: setActiveSessionId(null)
PointerAfterDelete(rest) == Null

\* (mutant) the active session is not looked at
DeletesActiveNever(id) == FALSE

\* deleteSession: activeSessionId === sessionId
DeletesActive(id) == activeSessionId = id

\* deleteSession(sessionId)
DeleteSession(id) ==
    /\ sessions' = RemoveId(sessions, id)
    /\ storage' = SaveEffect(sessions', storage)
    /\ IF DeletesActive(id)
       THEN /\ activeSessionId' = PointerAfterDelete(sessions')
            /\ messages' = <<>>
            /\ currentSteps' = <<>>
            /\ abandoned' = abandoned \cup Outstanding
       ELSE UNCHANGED <<activeSessionId, messages, currentSteps, abandoned>>
    /\ lastOp' = Op("delete", id, 0, activeSessionId = id, "")
    /\ SignedIn
    /\ UNCHANGED <<conn, auth, unmounted>>
    /\ UNCHANGED <<input, isLoading, settings, wsState, reconnectTimer, sends, now>>

\* the body of pinSession's map callback: the branch for the matching
\* session is empty, every session is returned as it is
PinMap(s, id) == s

\* pinSession(sessionId)
PinSession(id) ==
    LET k == FindSession(sessions, id) IN
    /\ sessions' = [j \in DOMAIN sessions |-> PinMap(sessions[j], id)]
    /\ storage' = SaveEffect(sessions', storage)
    /\ lastOp' = Op("pin", id, 0, IF k # 0 THEN sessions[k].pinned ELSE FALSE, "")
    /\ SignedIn
    /\ UNCHANGED <<conn, auth, unmounted>>
    /\ UNCHANGED <<activeSessionId, messages, input, isLoading, currentSteps,
                   settings, wsState, reconnectTimer, sends, abandoned, now>>

\* (mutant) a rename also counts as activity on the session
RenameMapTouch(s, id, newTitle) ==
    IF s.id = id THEN [s EXCEPT !.title = newTitle, !.updatedAt = @ + 1] ELSE s

\* the body of renameSession's map callback
RenameMap(s, id, newTitle) == IF s.id = id THEN [s EXCEPT !.title = newTitle] ELSE s

\* renameSession(sessionId, newTitle)
RenameSession(id, newTitle) ==
    /\ sessions' = [j \in DOMAIN sessions |-> RenameMap(sessions[j], id, newTitle)]
    /\ storage' = SaveEffect(sessions', storage)
    /\ lastOp' = Op("rename", id, 0, FALSE, newTitle)
    /\ SignedIn
    /\ UNCHANGED <<conn, auth, unmounted>>
    /\ UNCHANGED <<activeSessionId, messages, input, isLoading, currentSteps,
                   settings, wsState, reconnectTimer, sends, abandoned, now>>

(* ----------------------------------------------------------- sendMessage *)

\* (mutant) updateSession reads the active session at completion time
UpdateSessionTargetCurrent(capturedId) == activeSessionId

\* the session updateSession writes to: `activeSessionId` of the render
\* whose updateSession closure sendMessage called
UpdateSessionTarget(capturedId) == capturedId

\* the setSessions callback of updateSession
UpdateSessionMap(prev, capturedId, msgs, newTitle, t) ==
    [k \in DOMAIN prev |->
        IF prev[k].id = UpdateSessionTarget(capturedId)
        THEN [prev[k] EXCEPT !.messages = msgs,
                             !.title = IF Len(msgs) = 1 THEN newTitle ELSE @,
                             !.updatedAt = t]
        ELSE prev[k]]

\* updateSession without the title call: msgs[0]?.content.slice(0, 30) || 'New Chat'
DefaultTitle(msgs) ==
    IF Len(msgs) > 0 /\ Slice(msgs[1].content, TitleLen) # ""
    THEN Slice(msgs[1].content, TitleLen) ELSE NewChatTitle

\* what /api/chat/title can do: reply {title}, or fail (network, non-OK status)
TitleOutcomes ==
    {[ok |-> TRUE, title |-> ti] : ti \in ServerTitles} \cup {[ok |-> FALSE, title |-> ""]}

\* (mutant) the fallback title is the whole message
GenerateTitleWhole(messageContent, outcome) ==
    IF outcome.ok /\ outcome.title # "" THEN outcome.title ELSE messageContent

\* generateTitle(messageContent), given the outcome of the call
GenerateTitle(messageContent, outcome) ==
    IF outcome.ok /\ outcome.title # "" THEN outcome.title
    ELSE Slice(messageContent, TitleLen)

\* (mutant) a socket that is still connecting is used as well
DispatchPathQueued == IF wsState \in {"OPEN", "CONNECTING"} THEN "ws" ELSE "http"

\* wsRef.current?.readyState === WebSocket.OPEN decides the outbound path
DispatchPath == IF wsState = "OPEN" THEN "ws" ELSE "http"

\* sendMessage, from the click up to its first pending await: the whole
\* function when updateSession makes no title call, otherwise up to the
\* fetch of generateTitle
SendMessage ==
    \E t \in Clock :
    LET implicit == activeSessionId = Null
        content == Trim(input)
        sessions1 == IF implicit THEN Prepend(NewSession(t), sessions) ELSE sessions
        currentSessionId == IF implicit THEN IdOf(t) ELSE activeSessionId
        newMessages == Append(messages, UserMsg(t, content))
        isNewMessage == Len(messages) = 0
        k == FindSession(sessions, activeSessionId)
        titleCall == ~implicit /\ isNewMessage /\ Len(newMessages) = 1
        invocation ==
            [pc |-> IF titleCall THEN "title" ELSE DispatchPath,
             capturedId |-> activeSessionId,
             currentSessionId |-> currentSessionId,
             newMessages |-> newMessages,
             content |-> content,
             settings |-> settings,
             titled |-> titleCall,
             fresh |-> implicit \/ (k # 0 /\ sessions[k].messages = <<>>),
             n |-> 0]
    IN
    /\ content # ""
    /\ ~isLoading
    /\ Len(sends) < MaxSends
    /\ ~implicit \/ Len(sessions) < MaxSessions
    /\ activeSessionId' = currentSessionId
    /\ messages' = newMessages
    /\ sessions' = IF implicit \/ titleCall THEN sessions1
                   ELSE UpdateSessionMap(sessions1, activeSessionId, newMessages,
                                         DefaultTitle(newMessages), t)
    /\ storage' = SaveEffect(sessions', storage)
    /\ IF titleCall
       THEN UNCHANGED <<input, isLoading, currentSteps>>
       ELSE /\ input' = ""
            /\ isLoading' = TRUE
            /\ currentSteps' = <<>>
    /\ sends' = Append(sends, invocation)
    /\ now' = t
    /\ lastOp' = Op("send", currentSessionId, Len(sends) + 1, implicit, content)
    /\ SignedIn
    /\ UNCHANGED <<conn, auth, unmounted>>
    /\ UNCHANGED <<settings, wsState, reconnectTimer, abandoned>>

\* the title call of invocation i settles: updateSession writes the session,
\* then sendMessage resumes after its await and dispatches the message
TitleDone(i, outcome) ==
    \E t \in Clock :
    LET inv == sends[i]
        newTitle == GenerateTitle(inv.newMessages[1].content, outcome)
    IN
    /\ inv.pc = "title"
    /\ sessions' = UpdateSessionMap(sessions, inv.capturedId, inv.newMessages, newTitle, t)
    /\ storage' = SaveEffect(sessions', storage)
    /\ input' = ""
    /\ isLoading' = TRUE
    /\ currentSteps' = <<>>
    /\ sends' = [sends EXCEPT ![i].pc = DispatchPath]
    /\ now' = t
    /\ lastOp' = Op("title", inv.capturedId, i, outcome.ok /\ outcome.title # "", newTitle)
    /\ UNCHANGED <<conn, auth, unmounted>>
    /\ UNCHANGED <<activeSessionId, messages, settings, wsState, reconnectTimer, abandoned>>

\* what /api/chat/message can reply: {response, steps?}
HttpReplies(i) ==
    {[response |-> r, hasSteps |-> h] : r \in {Reply(i), ""}, h \in BOOLEAN}

\* the HTTP fallback of invocation i resolves with `data`
HttpOk(i, data) ==
    \E t \in Clock :
    LET inv == sends[i]
        text == IF data.response # "" THEN data.response ELSE NoResponseText
        assistantMsg ==
            IF data.hasSteps THEN AssistantMsg(IdOf(t + 1), t, text, StepsOf(i, MaxSteps))
            ELSE [id |-> IdOf(t + 1), role |-> "assistant", content |-> text,
                  timestamp |-> t]
        updatedMessages == Append(inv.newMessages, assistantMsg)
    IN
    /\ inv.pc = "http"
    /\ messages' = updatedMessages
    /\ sessions' = IF inv.capturedId = Null THEN sessions
                   ELSE UpdateSessionMap(sessions, inv.capturedId, updatedMessages,
                                         DefaultTitle(updatedMessages), t)
    /\ storage' = IF inv.capturedId = Null THEN storage
                  ELSE SaveEffect(sessions', storage)
    /\ isLoading' = FALSE
    /\ sends' = [sends EXCEPT ![i].pc = "done"]
    /\ now' = t
    /\ lastOp' = Op("httpOk", inv.capturedId, i, inv.settings.voiceEnabled /\ text # "", text)
    /\ UNCHANGED <<conn, auth, unmounted>>
    /\ UNCHANGED <<activeSessionId, input, currentSteps, settings, wsState,
                   reconnectTimer, abandoned>>

\* (mutant) the error message replaces the list
WithErrorMsgOnly(prev, err) == <<err>>

\* setMessages(prev => [...prev, errorMessage])
WithErrorMsg(prev, err) == Append(prev, err)

\* the HTTP fallback of invocation i throws (fetch rejects or the body is not JSON)
HttpFail(i) ==
    \E t \in Clock :
    /\ sends[i].pc = "http"
    /\ messages' = WithErrorMsg(messages, ErrorMsg(t))
    /\ isLoading' = FALSE
    /\ sends' = [sends EXCEPT ![i].pc = "done"]
    /\ now' = t
    /\ lastOp' = Op("httpFail", sends[i].capturedId, i, FALSE, ConnectionErrorText)
    /\ UNCHANGED <<conn, auth, unmounted>>
    /\ UNCHANGED <<sessions, activeSessionId, input, currentSteps, settings, storage,
                   wsState, reconnectTimer, abandoned>>

(* ------------------------------------------------------------- WebSocket *)

\* ws.onopen
WsOpen ==
    /\ wsState = "CONNECTING"
    /\ wsState' = "OPEN"
    /\ isConnected' = TRUE
    /\ lastOp' = Op("wsOpen", Null, 0, FALSE, "")
    /\ UNCHANGED <<auth, unmounted>>
    /\ UNCHANGED <<sessions, activeSessionId, messages, input, isLoading, currentSteps,
                   settings, storage, reconnectTimer, orphans, closures, attempts,
                   sends, abandoned, now>>

\* (mutant) the buffer is replaced by the new step
BufferWithStepOnly(prev, step) == <<step>>

\* setCurrentSteps(prev => [...prev, data.step])
BufferWithStep(prev, step) == Append(prev, step)

\* ws.onmessage, data.type === 'step', a step of turn i
WsStep(i) ==
    /\ wsState = "OPEN"
    /\ sends[i].pc = "ws"
    /\ sends[i].n < MaxSteps
    /\ currentSteps' = BufferWithStep(currentSteps, AgentStep(i, sends[i].n + 1))
    /\ sends' = [sends EXCEPT ![i].n = @ + 1]
    /\ lastOp' = Op("step", activeSessionIdRef, i, FALSE, "")
    /\ UNCHANGED <<conn, auth, unmounted>>
    /\ UNCHANGED <<sessions, activeSessionId, messages, input, isLoading, settings,
                   storage, wsState, reconnectTimer, abandoned, now>>

\* the `settings.voiceEnabled && data.content` test of ws.onmessage
WsSpeaks(content) == WsClosureSettings.voiceEnabled /\ content # ""

\* ws.onmessage, data.type === 'response', the response of turn i
WsResponse(i, content) ==
    \E t \in Clock :
    LET assistantMsg == AssistantMsg(IdOf(t), t, content, StepsOf(i, sends[i].n)) IN
    /\ wsState = "OPEN"
    /\ sends[i].pc = "ws"
    /\ isLoading' = FALSE
    /\ currentSteps' = <<>>
    /\ messages' = Append(messages, assistantMsg)
    /\ sessions' = [k \in DOMAIN sessions |->
                      IF sessions[k].id = activeSessionIdRef
                      THEN [sessions[k] EXCEPT !.messages = Append(@, assistantMsg),
                                               !.updatedAt = t]
                      ELSE sessions[k]]
    /\ storage' = SaveEffect(sessions', storage)
    /\ sends' = [sends EXCEPT ![i].pc = "done"]
    /\ now' = t
    /\ lastOp' = Op("response", activeSessionIdRef, i, WsSpeaks(content), content)
    /\ UNCHANGED <<conn, auth, unmounted>>
    /\ UNCHANGED <<activeSessionId, input, settings, wsState, reconnectTimer, abandoned>>

\* wsRef.current is a socket that has not closed
WsLive == wsState \in {"CONNECTING", "OPEN"}

\* (mutant) ws.onerror schedules a reconnect of its own
TimersAfterErrorScheduled(n) == n + 1

\* pending timers after ws.onerror, n before it: it only calls
\* setIsConnected(false)
TimersAfterError(n) == n

\* (mutant) ws.onclose only updates the status
TimersAfterCloseUnscheduled(n) == n

\* pending timers after ws.onclose, n before it: one more
\* setTimeout(connectWebSocket, 3000)
TimersAfterClose(n) == n + 1

\* ws.onerror: the connection failed; the browser delivers the socket's
\* close event after it
WsError ==
    /\ WsLive
    /\ closures < MaxCloses
    /\ wsState' = "FAILED"
    /\ isConnected' = FALSE
    /\ reconnectTimer' = TimersAfterError(reconnectTimer)
    /\ lastOp' = Op("wsError", Null, 0, FALSE, "")
    /\ UNCHANGED <<auth, unmounted>>
    /\ UNCHANGED <<sessions, activeSessionId, messages, input, isLoading, currentSteps,
                   settings, storage, orphans, closures, attempts, sends, abandoned, now>>

\* ws.onclose: the requests in flight on the socket get no response
OnClose ==
    /\ wsState' = "CLOSED"
    /\ isConnected' = FALSE
    /\ reconnectTimer' = TimersAfterClose(reconnectTimer)
    /\ closures' = closures + 1
    /\ sends' = [i \in DOMAIN sends |->
                   IF sends[i].pc = "ws" THEN [sends[i] EXCEPT !.pc = "lost"] ELSE sends[i]]
    /\ lastOp' = Op("wsClose", Null, 0, wsState = "FAILED", "")
    /\ UNCHANGED <<auth, unmounted>>
    /\ UNCHANGED <<sessions, activeSessionId, messages, input, isLoading, currentSteps,
                   settings, storage, orphans, attempts, abandoned, now>>

\* the server or the network closes the socket
WsClose ==
    /\ WsLive
    /\ closures < MaxCloses
    /\ OnClose

\* the close event of a socket that failed
WsCloseAfterError ==
    /\ wsState = "FAILED"
    /\ OnClose

\* the cleanup of the WebSocket effect (the component unmounts):
\* wsRef.current.close(); the handlers stay attached and no timer is
\* cleared
Cleanup ==
    /\ ~unmounted
    /\ unmounted' = TRUE
    /\ wsState' = IF WsLive THEN "CLOSING" ELSE wsState
    /\ lastOp' = Op("cleanup", Null, 0, WsLive, "")
    /\ UNCHANGED <<conn, auth>>
    /\ UNCHANGED <<sessions, activeSessionId, messages, input, isLoading, currentSteps,
                   settings, storage, reconnectTimer, sends, abandoned, now>>

\* the close event of the socket the cleanup closed
WsCloseAfterCleanup ==
    /\ wsState = "CLOSING"
    /\ OnClose

\* the setTimeout(connectWebSocket, 3000) callback: a new socket replaces
\* wsRef.current, whatever state the previous one is in
Reconnect ==
    /\ reconnectTimer > 0
    /\ reconnectTimer' = reconnectTimer - 1
    /\ wsState' = "CONNECTING"
    /\ attempts' = attempts + 1
    /\ orphans' = IF wsState = "CLOSED" THEN orphans ELSE orphans + 1
    /\ lastOp' = Op("reconnect", Null, 0, FALSE, "")
    /\ UNCHANGED <<auth, unmounted>>
    /\ UNCHANGED <<sessions, activeSessionId, messages, input, isLoading, currentSteps,
                   settings, storage, isConnected, closures, sends, abandoned, now>>

\* checkConnection: the /api/health poll sets the status dot
CheckConnection(ok) ==
    /\ isConnected # ok
    /\ isConnected' = ok
    /\ lastOp' = Op("health", Null, 0, ok, "")
    /\ UNCHANGED <<auth, unmounted>>
    /\ UNCHANGED <<sessions, activeSessionId, messages, input, isLoading, currentSteps,
                   settings, storage, wsState, reconnectTimer, orphans, closures,
                   attempts, sends, abandoned, now>>

(* ------------------------------------------------------- input, settings *)

\* textarea onChange, quick-action buttons, recognition.onresult: setInput
TypeInput(text) ==
    /\ text # input
    /\ input' = text
    /\ lastOp' = Op("type", Null, 0, FALSE, text)
    /\ SignedIn
    /\ UNCHANGED <<conn, auth, unmounted>>
    /\ UNCHANGED <<sessions, activeSessionId, messages, isLoading, currentSteps,
                   settings, storage, wsState, reconnectTimer, sends, abandoned, now>>

\* SettingsPanel.handleSave: onSave(localSettings) is setSettings
SaveSettings(s) ==
    /\ s # settings
    /\ settings' = s
    /\ lastOp' = Op("settings", Null, 0, s.voiceEnabled, s.model)
    /\ SignedIn
    /\ UNCHANGED <<conn, auth, unmounted>>
    /\ UNCHANGED <<sessions, activeSessionId, messages, input, isLoading, currentSteps,
                   storage, wsState, reconnectTimer, sends, abandoned, now>>

(* ------------------------------------------------------------- LoginPage *)

\* JSON.parse(localStorage.getItem('jarvis-users') || '{}') throws
ParseUsersThrows(doc) == doc.kind = "garbage"

\* JSON.parse(localStorage.getItem('jarvis-users') || '{}'), when it returns
ParseUsers(doc) == IF doc.kind = "json" THEN doc.map ELSE <<>>

\* (mutant) any password length is accepted
PasswordTooShortNever(pw) == FALSE

\* password.length < 4
PasswordTooShort(pw) == Len(pw) < MinPasswordLen

\* !username.trim() || !password.trim()
FieldEmpty(u, pw) == Trim(u) = "" \/ Trim(pw) = ""

\* (mutant) a known username is enough
CredentialsMatchUserOnly(users, u, pw) == u \in DOMAIN users

\* !(!users[username] || users[username].password !== password)
CredentialsMatch(users, u, pw) ==
    u \in DOMAIN users /\ users[u].password = pw

\* handleSubmit stops with a message: setError(msg); return
Reject(msg) ==
    /\ error' = msg
    /\ UNCHANGED <<usersDoc, currentUser, user, now>>

\* JSON.parse throws out of handleSubmit; setError('') has been applied
Throw ==
    /\ error' = ""
    /\ UNCHANGED <<usersDoc, currentUser, user, now>>

\* localStorage.setItem('jarvis-current-user', username); onLogin(username)
SignIn(u) ==
    /\ currentUser' = u
    /\ user' = u
    /\ error' = ""

\* LoginPage.handleSubmit with the form's mode and field values
HandleSubmit(mode, username, password, confirmPassword) ==
    LET users == ParseUsers(usersDoc) IN
    /\ ~SignedIn
    /\ IF FieldEmpty(username, password) THEN Reject(FillInAllFields)
       ELSE IF mode = "create"
       THEN IF password # confirmPassword THEN Reject(PasswordsDoNotMatch)
            ELSE IF PasswordTooShort(password) THEN Reject(PasswordTooShortText)
            ELSE IF ParseUsersThrows(usersDoc) THEN Throw
            ELSE IF username \in DOMAIN users THEN Reject(UsernameExists)
            ELSE \E t \in Clock :
                    /\ usersDoc' = UsersMap(WithUser(users, username,
                                        [password |-> password, createdAt |-> ToISO(t)]))
                    /\ now' = t
                    /\ SignIn(username)
       ELSE IF ParseUsersThrows(usersDoc) THEN Throw
            ELSE IF ~CredentialsMatch(users, username, password)
                 THEN Reject(InvalidCredentials)
                 ELSE SignIn(username) /\ UNCHANGED <<usersDoc, now>>
    /\ lastOp' = [op |-> mode, sid |-> username, turn |-> 0,
                   flag |-> /\ ~FieldEmpty(username, password)
                            /\ ParseUsersThrows(usersDoc)
                            /\ (mode = "create" =>
                                  password = confirmPassword /\ ~PasswordTooShort(password)),
                   text |-> password, confirm |-> confirmPassword]
    /\ UNCHANGED <<sessions, activeSessionId, messages, input, isLoading, currentSteps,
                   settings, storage, wsState, reconnectTimer, conn, unmounted, sends, abandoned>>

\* LoginPage.handleGuestLogin
HandleGuestLogin ==
    /\ ~SignedIn
    /\ SignIn("guest")
    /\ lastOp' = Op("guest", "guest", 0, FALSE, "")
    /\ UNCHANGED <<sessions, activeSessionId, messages, input, isLoading, currentSteps,
                   settings, storage, wsState, reconnectTimer, conn, unmounted,
                   usersDoc, sends, abandoned, now>>

(* ---------------------------------------------------------- specification *)

Next ==
    \/ CreateNewSession
    \/ \E id \in SessionIds : SelectSession(id)
    \/ \E id \in SessionIds : DeleteSession(id)
    \/ \E id \in SessionIds : PinSession(id)
    \/ \E id \in SessionIds, ti \in RenameTitles : RenameSession(id, ti)
    \/ \E text \in Inputs : TypeInput(text)
    \/ SendMessage
    \/ \E i \in DOMAIN sends, o \in TitleOutcomes : TitleDone(i, o)
    \/ \E i \in DOMAIN sends : \E d \in HttpReplies(i) : HttpOk(i, d)
    \/ \E i \in DOMAIN sends : HttpFail(i)
    \/ WsOpen
    \/ \E i \in DOMAIN sends : WsStep(i)
    \/ \E i \in DOMAIN sends : \E c \in {Reply(i), ""} : WsResponse(i, c)
    \/ WsError
    \/ WsClose
    \/ WsCloseAfterError
    \/ Reconnect
    \/ Cleanup
    \/ WsCloseAfterCleanup
    \/ \E ok \in BOOLEAN : CheckConnection(ok)
    \/ \E s \in SettingsChoices : SaveSettings(s)
    \/ \E m \in Modes, u \in Usernames, pw \in Passwords, cpw \in Passwords :
           HandleSubmit(m, u, pw, cpw)
    \/ HandleGuestLogin

Spec == InitAny /\ [][Next]_vars

\* The session handlers alone: the sidebar's create / select / delete /
\* pin / rename, with the save effect.
NextSessions ==
    \/ CreateNewSession
    \/ \E id \in SessionIds : SelectSession(id)
    \/ \E id \in SessionIds : DeleteSession(id)
    \/ \E id \in SessionIds : PinSession(id)
    \/ \E id \in SessionIds, ti \in RenameTitles : RenameSession(id, ti)

SpecSessions == Init /\ [][NextSessions]_vars

\* Sending with title generation, while the user creates, selects and
\* deletes sessions.  The socket never opens, so every dispatch takes the
\* HTTP path and stays pending.
NextTitle ==
    \/ CreateNewSession
    \/ \E id \in SessionIds : SelectSession(id)
    \/ \E id \in SessionIds : DeleteSession(id)
    \/ \E text \in ShortInputs : TypeInput(text)
    \/ SendMessage
    \/ \E i \in DOMAIN sends, o \in TitleOutcomes : TitleDone(i, o)

SpecTitle == Init /\ [][NextTitle]_vars

\* Turns streamed over the open socket while the user switches sessions.
NextStream ==
    \/ CreateNewSession
    \/ \E id \in SessionIds : SelectSession(id)
    \/ \E text \in ShortInputs : TypeInput(text)
    \/ SendMessage
    \/ \E i \in DOMAIN sends, o \in TitleOutcomes : TitleDone(i, o)
    \/ WsOpen
    \/ \E i \in DOMAIN sends : WsStep(i)
    \/ \E i \in DOMAIN sends : WsResponse(i, Reply(i))

SpecStream == Init /\ [][NextStream]_vars

\* Responses over the open socket while the user saves settings.  No
\* session is created explicitly, so no send makes a title call.
NextVoice ==
    \/ \E text \in ShortInputs : TypeInput(text)
    \/ SendMessage
    \/ WsOpen
    \/ \E i \in DOMAIN sends : \E c \in {Reply(i), ""} : WsResponse(i, c)
    \/ \E s \in SettingsChoices : SaveSettings(s)

SpecVoice == Init /\ [][NextVoice]_vars

\* The channel: sends over a socket that opens, fails, closes and is
\* reconnected by the timer.  No session is created explicitly, so no send
\* makes a title call; a message sent while the socket is not open stays
\* pending on the HTTP path.
NextChannel ==
    \/ \E text \in ShortInputs : TypeInput(text)
    \/ SendMessage
    \/ WsOpen
    \/ \E i \in DOMAIN sends : WsStep(i)
    \/ \E i \in DOMAIN sends : WsResponse(i, Reply(i))
    \/ WsError
    \/ WsClose
    \/ WsCloseAfterError
    \/ Reconnect

SpecChannel == Init /\ [][NextChannel]_vars

\* The event loop delivers the close event queued behind an error event,
\* and a pending timer fires.
SpecChannelFair ==
    SpecChannel /\ WF_vars(WsCloseAfterError) /\ WF_vars(Reconnect)

\* The channel with explicitly created sessions: a send into a fresh
\* session waits for its title call before it picks its path.
NextDispatch ==
    \/ CreateNewSession
    \/ \E text \in ShortInputs : TypeInput(text)
    \/ SendMessage
    \/ \E i \in DOMAIN sends, o \in TitleOutcomes : TitleDone(i, o)
    \/ WsOpen
    \/ WsError
    \/ WsClose
    \/ WsCloseAfterError
    \/ Reconnect

SpecDispatch == Init /\ [][NextDispatch]_vars

\* Creating and selecting sessions while turns are in flight on the open
\* socket, so that the visible list, the step buffer and the loading flag
\* have contents when a handler runs.
NextSwitch ==
    \/ CreateNewSession
    \/ \E id \in SessionIds : SelectSession(id)
    \/ \E text \in ShortInputs : TypeInput(text)
    \/ SendMessage
    \/ WsOpen
    \/ \E i \in DOMAIN sends : WsStep(i)

SpecSwitch == Init /\ [][NextSwitch]_vars

\* First messages of any length, long ones included, sent into explicitly
\* created sessions, and their title calls.
NextFallback ==
    \/ CreateNewSession
    \/ \E text \in Inputs : TypeInput(text)
    \/ SendMessage
    \/ \E i \in DOMAIN sends, o \in TitleOutcomes : TitleDone(i, o)

SpecFallback == Init /\ [][NextFallback]_vars

\* Turns over the open socket, into explicitly and implicitly created
\* sessions: sends, title calls, step events and responses.
NextTurn ==
    \/ CreateNewSession
    \/ \E text \in ShortInputs : TypeInput(text)
    \/ SendMessage
    \/ \E i \in DOMAIN sends, o \in TitleOutcomes : TitleDone(i, o)
    \/ WsOpen
    \/ \E i \in DOMAIN sends : WsStep(i)
    \/ \E i \in DOMAIN sends : WsResponse(i, Reply(i))

SpecTurn == Init /\ [][NextTurn]_vars

\* Startup on any stored document, followed by the session handlers.
SpecLoad == InitLoad /\ [][NextSessions]_vars

\* The login page: submits of the sign-in and create-account form, and
\* the guest button, until somebody is signed in.
NextLogin ==
    \/ \E m \in Modes, u \in Usernames, pw \in Passwords, cpw \in Passwords :
           HandleSubmit(m, u, pw, cpw)
    \/ HandleGuestLogin

SpecLogin == InitLogin /\ [][NextLogin]_vars

\* Sends on the HTTP fallback (the socket never opens) and their
\* completions, while the user creates and selects sessions.
NextHttp ==
    \/ CreateNewSession
    \/ \E id \in SessionIds : SelectSession(id)
    \/ \E text \in ShortInputs : TypeInput(text)
    \/ SendMessage
    \/ \E i \in DOMAIN sends : \E d \in HttpReplies(i) : HttpOk(i, d)
    \/ \E i \in DOMAIN sends : HttpFail(i)

SpecHttp == Init /\ [][NextHttp]_vars

\* Sends over the open socket while the user saves settings.
NextSettings ==
    \/ CreateNewSession
    \/ \E text \in ShortInputs : TypeInput(text)
    \/ SendMessage
    \/ \E i \in DOMAIN sends, o \in TitleOutcomes : TitleDone(i, o)
    \/ WsOpen
    \/ \E s \in SettingsChoices : SaveSettings(s)

SpecSettings == Init /\ [][NextSettings]_vars

\* Sends on either path with their completions, over a channel that can
\* fail, close and reconnect.
NextAnswer ==
    \/ \E text \in ShortInputs : TypeInput(text)
    \/ SendMessage
    \/ WsOpen
    \/ \E i \in DOMAIN sends : WsResponse(i, Reply(i))
    \/ \E i \in DOMAIN sends : \E d \in HttpReplies(i) : HttpOk(i, d)
    \/ \E i \in DOMAIN sends : HttpFail(i)
    \/ WsError
    \/ WsClose
    \/ WsCloseAfterError
    \/ Reconnect

\* The backend answers every message event it received while the socket
\* stays open, every fetch settles, a connecting socket opens unless it
\* fails, the close event follows an error event, and a pending timer
\* fires.
SpecAnswerFair ==
    /\ Init /\ [][NextAnswer]_vars
    /\ WF_vars(\E i \in DOMAIN sends : WsResponse(i, Reply(i)))
    /\ WF_vars(\E i \in DOMAIN sends : HttpFail(i) \/ \E d \in HttpReplies(i) : HttpOk(i, d))
    /\ WF_vars(WsOpen)
    /\ WF_vars(WsCloseAfterError)
    /\ WF_vars(Reconnect)

\* Renames around the first send of a session and its title call.
NextRename ==
    \/ CreateNewSession
    \/ \E id \in SessionIds, ti \in RenameTitles : RenameSession(id, ti)
    \/ \E text \in ShortInputs : TypeInput(text)
    \/ SendMessage
    \/ \E i \in DOMAIN sends, o \in TitleOutcomes : TitleDone(i, o)

SpecRename == Init /\ [][NextRename]_vars

\* Every handler that sets the active session or changes the list,
\* with sends and their responses.
NextPointer ==
    \/ CreateNewSession
    \/ \E id \in SessionIds : SelectSession(id)
    \/ \E id \in SessionIds : DeleteSession(id)
    \/ \E text \in ShortInputs : TypeInput(text)
    \/ SendMessage
    \/ \E i \in DOMAIN sends, o \in TitleOutcomes : TitleDone(i, o)
    \/ WsOpen
    \/ \E i \in DOMAIN sends : WsResponse(i, Reply(i))

SpecPointer == Init /\ [][NextPointer]_vars

\* The channel up to and after the unmount of the component; the user
\* types and sends while it is mounted.
NextUnmount ==
    \/ ~unmounted /\ \E text \in Inputs : TypeInput(text)
    \/ ~unmounted /\ SendMessage
    \/ WsOpen
    \/ WsError
    \/ WsClose
    \/ WsCloseAfterError
    \/ Reconnect
    \/ Cleanup
    \/ WsCloseAfterCleanup

SpecUnmount == Init /\ [][NextUnmount]_vars

(* ----------------------------------------------------------------- claims *)

\* the user message invocation i appended
SentMsg(i) == sends[i].newMessages[Len(sends[i].newMessages)]

InSeq(m, seq) == \E j \in DOMAIN seq : seq[j] = m

\* the sessions of the stored document (none when there is no readable one)
StoredBody == IF storage.kind = "json" THEN storage.body ELSE <<>>

\* the title call of invocation i is pending
TitlePending(i) == sends[i].pc = "title"

\* the message of invocation i has left on the socket or on the HTTP path
Dispatched(i) == sends[i].pc \in {"ws", "http", "done", "lost"}

\* the steps attached to message m (none when it has no steps key)
StepsAttached(m) == IF "steps" \in DOMAIN m THEN m.steps ELSE <<>>

\* C1: a send accepted with no active session creates a session, makes it
\* active, and that session (in the list and in the stored document) holds
\* the user message from then on, for as long as the session exists.
C1_ImplicitSessionHoldsFirstMessage ==
    /\ (lastOp.op = "send" /\ lastOp.flag) =>
           /\ activeSessionId = lastOp.sid
           /\ FindSession(sessions, lastOp.sid) # 0
    /\ \A i \in DOMAIN sends :
           sends[i].capturedId = Null =>
               /\ \A k \in DOMAIN sessions :
                      sessions[k].id = sends[i].currentSessionId =>
                          InSeq(SentMsg(i), sessions[k].messages)
               /\ \A k \in DOMAIN StoredBody :
                      StoredBody[k].id = sends[i].currentSessionId =>
                          InSeq(WireMessage(SentMsg(i)), StoredBody[k].messages)

\* C2: once deleteSession(id) has run and the save effect has settled, the
\* stored document holds no session with that id.
C2_DeleteEvictsFromStore ==
    lastOp.op = "delete" =>
        \A k \in DOMAIN StoredBody : StoredBody[k].id # lastOp.sid

\* C3: after any createSession / deleteSession / renameSession / pinSession
\* call has settled, the stored document is the serialization of the
\* in-memory session list (no document counting as the empty list).
C3_StoreMirrorsList ==
    lastOp.op \in {"create", "delete", "rename", "pin"} =>
        StoredBody = Serialize(sessions).body

\* C4: pinSession(id) negates the pinned flag of session id and changes no
\* other session's flag.
C4_PinToggles ==
    [][lastOp'.op = "pin" =>
          /\ Len(sessions') = Len(sessions)
          /\ \A k \in DOMAIN sessions :
                 sessions'[k].pinned =
                     IF sessions[k].id = lastOp'.sid THEN ~sessions[k].pinned
                     ELSE sessions[k].pinned]_vars

\* C5: for every session that received its first message while it was
\* fresh (no messages, explicitly or implicitly created), exactly one
\* title-generation call has been made, however many sends followed.
C5_ExactlyOneTitleCall ==
    \A i \in DOMAIN sends :
        sends[i].fresh =>
            Cardinality({j \in DOMAIN sends :
                            /\ sends[j].currentSessionId = sends[i].currentSessionId
                            /\ sends[j].titled}) = 1

\* C6: when a title call completes, the title is written to the sessions
\* whose id is the one captured when the call was made, and every other
\* session, the one active at completion time included, keeps its title.
C6_TitleTargetsOriginatingSession ==
    [][lastOp'.op = "title" =>
          /\ Len(sessions') = Len(sessions)
          /\ \A k \in DOMAIN sessions :
                 sessions'[k].title =
                     IF sessions[k].id = lastOp'.sid THEN lastOp'.text
                     ELSE sessions[k].title]_vars

\* C6 witness: a title call has just completed while another session was
\* active; the originating session carries the new title and the active
\* session still has its own.
C6_Witness ==
    /\ lastOp.op = "title"
    /\ activeSessionId \notin {Null, lastOp.sid}
    /\ \E k \in DOMAIN sessions :
           sessions[k].id = lastOp.sid /\ sessions[k].title = lastOp.text
    /\ \E k \in DOMAIN sessions :
           sessions[k].id = activeSessionId /\ sessions[k].title # lastOp.text

\* C7: the dispatch of a message does not wait for its title call: while
\* the title call of an invocation is pending, its message has already
\* been dispatched.
C7_DispatchDoesNotWaitForTitle ==
    \A i \in DOMAIN sends : TitlePending(i) => Dispatched(i)

\* C8: a session switch (selectSession, createSession) leaves the step
\* buffer empty, and no message of any session carries a step of a turn
\* that was outstanding when the active session changed.
C8_AbandonedStepsNeverAttached ==
    /\ (lastOp.op = "create" \/ (lastOp.op = "select" /\ lastOp.flag)) =>
           currentSteps = <<>>
    /\ \A k \in DOMAIN sessions : \A j \in DOMAIN sessions[k].messages :
           LET st == StepsAttached(sessions[k].messages[j]) IN
           \A q \in DOMAIN st : st[q].id[1] \notin abandoned

\* C9: the step buffer only holds steps of turns that were started in the
\* currently active session.
C9_BufferBelongsToActiveSession ==
    \A q \in DOMAIN currentSteps :
        sends[currentSteps[q].id[1]].currentSessionId = activeSessionId

\* C10: a response event calls speech synthesis exactly when voice output
\* is enabled in the settings current at that time and the content is not
\* empty.
C10_SpeechFollowsCurrentSettings ==
    lastOp.op = "response" =>
        (lastOp.flag <=> (settings.voiceEnabled /\ lastOp.text # ""))

\* the turn of the last accepted send, while its request is outstanding
CurrentTurnOutstanding == sends # <<>> /\ Len(sends) \in Outstanding

\* C11: from the moment sendMessage accepts a message until that turn's
\* response event or HTTP completion, the loading flag is set (so no
\* further message is accepted); a response of an earlier, abandoned turn
\* does not clear it.
C11_SingleFlight ==
    CurrentTurnOutstanding => isLoading

\* the request of turn i went out on a socket that closed before the
\* response came
Lost(i) == sends[i].pc = "lost"

\* C12: once the socket has closed under a turn in flight, the step buffer
\* holds none of that turn's steps, neither right after the close nor
\* after the reconnection.
C12_LostStepsDiscarded ==
    \A q \in DOMAIN currentSteps : ~Lost(currentSteps[q].id[1])

\* seq a is seq b or a beginning of it
IsPrefix(a, b) == Len(a) <= Len(b) /\ SubSeq(b, 1, Len(a)) = a

\* C13: every step of the system only appends to a session's message
\* sequence: the sequence a session had before the step is a prefix of the
\* sequence it has after it.  (No handler reorders the list: a step that
\* keeps its length keeps every session in place, a creation shifts every
\* session down by one.)
C13_MessagesAppendOnly ==
    [][/\ Len(sessions') = Len(sessions) =>
              \A k \in DOMAIN sessions :
                  IsPrefix(sessions[k].messages, sessions'[k].messages)
       /\ Len(sessions') = Len(sessions) + 1 =>
              \A k \in DOMAIN sessions :
                  IsPrefix(sessions[k].messages, sessions'[k + 1].messages)]_vars

\* C14: the assistant message a response event appends carries exactly the
\* steps the step buffer held when the event arrived, in buffer order.
C14_BufferFlushedIntoMessage ==
    [][lastOp'.op = "response" =>
          StepsAttached(messages'[Len(messages')]) = currentSteps]_vars

\* the socket wsRef points to has failed or closed
ChannelDown == wsState \in {"FAILED", "CLOSED"}

\* C15: the channel has no terminal state.  Exactly one reconnect timer is
\* pending when the socket has closed (after an error, once the close
\* event that follows it has been delivered) and none otherwise, and from
\* every failed or closed state the manager gets back to Connecting.
C15_AlwaysReconnects ==
    /\ [](reconnectTimer = IF wsState = "CLOSED" THEN 1 ELSE 0)
    /\ ChannelDown ~> (wsState = "CONNECTING")

\* C15 witness: the close event that follows an error event has scheduled
\* the one reconnection attempt.
C15_Witness ==
    /\ lastOp.op = "wsClose"
    /\ lastOp.flag
    /\ reconnectTimer = 1

\* C16: every closure gets exactly one reconnect attempt, made or still
\* pending on its timer, never two; wsRef's socket is the only live one;
\* and when an attempt has succeeded the channel is Open.
C16_OneAttemptPerClosure ==
    /\ attempts + reconnectTimer = closures
    /\ reconnectTimer <= 1
    /\ orphans = 0
    /\ lastOp.op = "wsOpen" => (wsState = "OPEN" /\ isConnected)

\* C16 witness: the socket has closed MaxCloses times in a row, each
\* closure was followed by one attempt, and the last attempt has opened.
C16_Witness ==
    /\ closures = MaxCloses
    /\ attempts = MaxCloses
    /\ lastOp.op = "wsOpen"
    /\ wsState = "OPEN"

\* where invocation i stood before the step ("none": not yet called)
PcBefore(i) == IF i \in DOMAIN sends THEN sends[i].pc ELSE "none"

C18_DeleteClearsOnlyActive ==
    [][lastOp'.op = "delete" =>
          IF activeSessionId = lastOp'.sid
          THEN activeSessionId' = Null /\ messages' = <<>>
          ELSE activeSessionId' = activeSessionId /\ messages' = messages]_vars

\* C18 witness: the active session was deleted while another session
\* remained in the list, and no session is active.
C18_Witness ==
    /\ lastOp.op = "delete"
    /\ lastOp.flag
    /\ sessions # <<>>
    /\ activeSessionId = Null
    /\ messages = <<>>

\* C19: selectSession with an id of the list makes it the active session
\* and shows exactly that session's messages; with an id that is not in
\* the list it changes nothing.
C19_SelectProjectsOrNoOp ==
    [][lastOp'.op = "select" =>
          IF \E k \in DOMAIN sessions : sessions[k].id = lastOp'.sid
          THEN /\ activeSessionId' = lastOp'.sid
               /\ \E k \in DOMAIN sessions :
                      /\ sessions[k].id = lastOp'.sid
                      /\ messages' = sessions[k].messages
          ELSE UNCHANGED <<activeSessionId, messages, currentSteps, isLoading,
                           sessions>>]_vars

\* C19 witness: selectSession was called with an id that is not in the
\* list while a session with visible messages was active.
C19_Witness ==
    /\ lastOp.op = "select"
    /\ ~lastOp.flag
    /\ activeSessionId # Null
    /\ messages # <<>>

\* C20: createSession puts a new session titled "New Chat", without
\* messages and not pinned, in front of the unchanged previous list, makes
\* it active and leaves the visible list and the step buffer empty.
C20_CreatePrependsFreshSession ==
    [][lastOp'.op = "create" =>
          /\ Len(sessions') = Len(sessions) + 1
          /\ Tail(sessions') = sessions
          /\ Head(sessions').title = NewChatTitle
          /\ Head(sessions').messages = <<>>
          /\ Head(sessions').pinned = FALSE
          /\ activeSessionId' = Head(sessions').id
          /\ messages' = <<>>
          /\ currentSteps' = <<>>]_vars

\* C20 witness: a session was created in front of a session that has
\* messages.
C20_Witness ==
    /\ lastOp.op = "create"
    /\ Len(sessions) >= 2
    /\ sessions[2].messages # <<>>
    /\ activeSessionId = sessions[1].id

\* C21: renameSession(id, title) replaces the title of the sessions with
\* that id and nothing else: their messages, timestamps and pinned flag,
\* every other session, the order of the list, the active pointer and the
\* visible list stay as they were.
C21_RenameChangesOnlyTitle ==
    [][lastOp'.op = "rename" =>
          /\ Len(sessions') = Len(sessions)
          /\ \A k \in DOMAIN sessions :
                 sessions'[k] =
                     IF sessions[k].id = lastOp'.sid
                     THEN [sessions[k] EXCEPT !.title = lastOp'.text]
                     ELSE sessions[k]
          /\ activeSessionId' = activeSessionId
          /\ messages' = messages]_vars

\* C21 witness: a session that has messages was renamed while another
\* session was in the list.
C21_Witness ==
    /\ lastOp.op = "rename"
    /\ \E k \in DOMAIN sessions :
           /\ sessions[k].id = lastOp.sid
           /\ sessions[k].title = lastOp.text
           /\ sessions[k].messages # <<>>
    /\ \E j \in DOMAIN sessions : sessions[j].id # lastOp.sid

\* C22: no two sessions of the list have the same id.
C22_SessionIdsUnique ==
    \A j, k \in DOMAIN sessions : j # k => sessions[j].id # sessions[k].id

\* the first 30 characters of a text (the whole text when it is shorter)
First30(c) == IF Len(c) > 30 THEN SubSeq(c, 1, 30) ELSE c

\* C23: when a title call ends without a usable title (network error,
\* non-OK status, empty title) the session it was made for gets as title
\* exactly the first 30 characters of its first message, and the visible
\* conversation gets no error message.
C23_FailedTitleFallsBack ==
    [][(lastOp'.op = "title" /\ ~lastOp'.flag) =>
          /\ \A k \in DOMAIN sessions :
                 sessions[k].id = lastOp'.sid =>
                     sessions'[k].title =
                         First30(sends[lastOp'.turn].newMessages[1].content)
          /\ messages' = messages]_vars

\* C23 witness: the title call for a first message longer than 30
\* characters has failed and the session carries the 30-character title.
C23_Witness ==
    /\ lastOp.op = "title"
    /\ ~lastOp.flag
    /\ Len(sends[lastOp.turn].newMessages[1].content) > 30
    /\ Len(lastOp.text) = 30
    /\ \E k \in DOMAIN sessions :
           sessions[k].id = lastOp.sid /\ sessions[k].title = lastOp.text

\* the last message of a sequence
LastMsg(seq) == seq[Len(seq)]

\* C24: a response event appends one assistant message with the event's
\* content to the visible list and, the same message, to the active
\* session's sequence; it changes no other session, empties the step
\* buffer, clears the loading flag, leaves the session's updatedAt not
\* earlier than its createdAt, and the store holds the updated list.
C24_ResponseAppendsOneMessage ==
    [][lastOp'.op = "response" =>
          /\ Len(messages') = Len(messages) + 1
          /\ SubSeq(messages', 1, Len(messages)) = messages
          /\ LastMsg(messages').role = "assistant"
          /\ LastMsg(messages').content = lastOp'.text
          /\ Len(sessions') = Len(sessions)
          /\ \A k \in DOMAIN sessions :
                 IF sessions[k].id = activeSessionId
                 THEN /\ sessions'[k].messages =
                             Append(sessions[k].messages, LastMsg(messages'))
                      /\ sessions'[k].updatedAt >= sessions'[k].createdAt
                 ELSE sessions'[k] = sessions[k]
          /\ currentSteps' = <<>>
          /\ isLoading' = FALSE
          /\ sessions' # <<>> => StoredBody' = Serialize(sessions').body]_vars

\* C24 witness: create, send, response: the active session, in the list
\* and in the store, holds one user message and one assistant message.
C24_Witness ==
    /\ lastOp.op = "response"
    /\ sends[lastOp.turn].titled
    /\ \E k \in DOMAIN sessions :
           /\ sessions[k].id = activeSessionId
           /\ Len(sessions[k].messages) = 2
           /\ sessions[k].messages[1].role = "user"
           /\ sessions[k].messages[2].role = "assistant"
           /\ Len(StoredBody[k].messages) = 2
           /\ sessions[k].updatedAt >= sessions[k].createdAt

\* C25: a step event puts one step at the end of the step buffer and
\* leaves the session list, the store, the visible list, the active
\* pointer and the loading flag as they were.
C25_StepOnlyGrowsBuffer ==
    [][lastOp'.op = "step" =>
          /\ Len(currentSteps') = Len(currentSteps) + 1
          /\ SubSeq(currentSteps', 1, Len(currentSteps)) = currentSteps
          /\ UNCHANGED <<sessions, storage, messages, activeSessionId, isLoading>>]_vars

\* C25 witness: a step event arrived while the buffer already held a step.
C25_Witness ==
    /\ lastOp.op = "step"
    /\ Len(currentSteps) >= 2

\* C26: while the session list is empty the stored document is left as it
\* is, and whenever the list is not empty the stored document is the
\* serialization of the full list.
C26_SaveSkipsEmptyList ==
    /\ [](sessions # <<>> => storage = Serialize(sessions))
    /\ [][sessions' = <<>> => storage' = storage]_vars

\* C26 witness: the list has become empty and the store still holds the
\* document written before.
C26_Witness ==
    /\ lastOp.op = "delete"
    /\ sessions = <<>>
    /\ storage.kind = "json"
    /\ storage.body # <<>>

\* C27: when the load effect throws on the stored document (not
\* parseable, not a list, an entry without a message list), startup goes
\* on with an empty session list and the document is still in the store
\* as it was found.
C27_LoadFailsClosed ==
    (lastOp.op = "init" /\ lastOp.flag) =>
        /\ sessions = <<>>
        /\ LoadThrows(storage)

\* C27 witness: the application has started on a list whose entry has no
\* message list; the session list is empty and the document untouched.
C27_Witness ==
    /\ lastOp.op = "init"
    /\ storage = NoMessagesDoc
    /\ sessions = <<>>

\* the last handler was a submit of the login form
Submitted == lastOp.op \in Modes /\ "confirm" \in DOMAIN lastOp

\* C28: sign-in and account creation never throw out of the submit
\* handler, whatever the 'jarvis-users' document holds.
C28_SubmitNeverThrows ==
    Submitted => ~lastOp.flag

\* C29: when the HTTP fallback call fails, the visible conversation is
\* what it was (the user's message stays) with one assistant message
\* carrying the connection-error text added at its end, and the loading
\* flag is cleared.
C29_HttpFailureShowsError ==
    [][lastOp'.op = "httpFail" =>
          /\ Len(messages') = Len(messages) + 1
          /\ SubSeq(messages', 1, Len(messages)) = messages
          /\ LastMsg(messages').role = "assistant"
          /\ LastMsg(messages').content = ConnectionErrorText
          /\ isLoading' = FALSE]_vars

\* C29 witness: the HTTP call of the turn just sent has failed; the
\* user's message is visible with the error message right after it, and
\* input is enabled.
C29_Witness ==
    /\ lastOp.op = "httpFail"
    /\ Len(messages) >= 2
    /\ messages[Len(messages) - 1] = SentMsg(lastOp.turn)
    /\ LastMsg(messages).content = ConnectionErrorText
    /\ ~isLoading

\* C30: an account creation that is rejected (a field is empty, the
\* passwords differ, the password has fewer than 4 characters, or the
\* username is already in the credential map) changes neither the
\* credential map nor the current-user marker and logs nobody in; any
\* other creation either changes nothing or adds exactly one entry, for
\* the submitted username, which was not in the map, and keeps the others.
C30_RejectedCreationChangesNothing ==
    [][lastOp'.op = "create" =>
          LET u == lastOp'.sid
              pw == lastOp'.text
              old == ParseUsers(usersDoc)
              new == ParseUsers(usersDoc')
              rejected == \/ Trim(u) = "" \/ Trim(pw) = ""
                          \/ pw # lastOp'.confirm
                          \/ Len(pw) < MinPasswordLen
                          \/ u \in DOMAIN old
              nothing == /\ usersDoc' = usersDoc
                         /\ currentUser' = currentUser
                         /\ user' = user
                         /\ user' = Null
          IN  IF rejected THEN nothing
              ELSE \/ nothing
                   \/ /\ u \notin DOMAIN old
                      /\ usersDoc'.kind = "json"
                      /\ DOMAIN new = (DOMAIN old) \cup {u}
                      /\ \A x \in DOMAIN old : new[x] = old[x]
                      /\ new[u].password = pw]_vars

\* C30 witness: a creation with a username that is already in the
\* credential map has been rejected; nobody is logged in.
C30_Witness ==
    /\ lastOp.op = "create"
    /\ lastOp.sid \in DOMAIN ParseUsers(usersDoc)
    /\ lastOp.text = lastOp.confirm
    /\ Len(lastOp.text) >= MinPasswordLen
    /\ error = UsernameExists
    /\ user = Null
    /\ currentUser = Null

\* C31: a sign-in logs the user in (marker and onLogin) only when the
\* credential map has an entry for the username whose password is the
\* entered one; a sign-in with an unknown username and one with a wrong
\* password both leave the credential map, the marker and the user as
\* they were and show the same message.
C31_SignInExactAndUniform ==
    [][lastOp'.op = "signin" =>
          LET u == lastOp'.sid
              pw == lastOp'.text
              old == ParseUsers(usersDoc)
              match == u \in DOMAIN old /\ old[u].password = pw
              filled == Trim(u) # "" /\ Trim(pw) # ""
          IN  /\ (user' # user \/ currentUser' # currentUser) =>
                    match /\ user' = u /\ currentUser' = u
              /\ (filled /\ ~match /\ ~lastOp'.flag) =>
                    /\ error' = InvalidCredentials
                    /\ usersDoc' = usersDoc
                    /\ currentUser' = currentUser
                    /\ user' = user]_vars

\* C31 witness: a sign-in with a known username and a wrong password has
\* been rejected with the generic message; nobody is logged in.
C31_Witness ==
    /\ lastOp.op = "signin"
    /\ lastOp.sid \in DOMAIN ParseUsers(usersDoc)
    /\ ParseUsers(usersDoc)[lastOp.sid].password # lastOp.text
    /\ Trim(lastOp.text) # ""
    /\ error = InvalidCredentials
    /\ user = Null
    /\ currentUser = Null

WsSendNow(i) ==
    /\ i \in DOMAIN sends'
    /\ sends'[i].pc = "ws"
    /\ i \in DOMAIN sends => sends[i].pc # "ws"

\* C33: every message event sent over the WebSocket carries the settings
\* that are current when it is sent.
C33_OutboundCarriesCurrentSettings ==
    [][\A i \in 1..MaxSends : WsSendNow(i) => sends'[i].settings = settings']_vars

\* C34: the response to a turn (over the WebSocket or the HTTP fallback)
\* changes the message sequence of no session other than the one the
\* turn was sent in, and the visible list is left alone when another
\* session (or none) is active.
C34_ResponseStaysInOriginSession ==
    [][lastOp'.op \in {"response", "httpOk"} =>
          LET origin == sends[lastOp'.turn].currentSessionId IN
          /\ \A k \in DOMAIN sessions :
                 sessions[k].id # origin => sessions'[k].messages = sessions[k].messages
          /\ activeSessionId # origin => messages' = messages]_vars

\* C35: whenever no request is outstanding, the visible list is the
\* message sequence of the active session in the session list, and it is
\* empty when no session is active.
C35_VisibleListIsActiveSession ==
    Outstanding = {} =>
        IF activeSessionId = Null THEN messages = <<>>
        ELSE /\ FindSession(sessions, activeSessionId) # 0
             /\ messages = sessions[FindSession(sessions, activeSessionId)].messages

\* C36: after a send has set the loading flag, the flag eventually
\* becomes false again, also when the socket closes before the response
\* and the channel reconnects.
C36_SendReenablesInput ==
    isLoading ~> ~isLoading

\* C37: a session that carries a title the user set by renaming keeps
\* it through every step that is not another rename: no send and no
\* completion of a title call replaces it.  (The rename modal's titles
\* are none of the titles the program generates.)
C37_RenameSurvivesAutoTitle ==
    [][lastOp'.op # "rename" =>
          /\ Len(sessions') = Len(sessions) =>
                 \A k \in DOMAIN sessions :
                     sessions[k].title \in RenameTitles =>
                         sessions'[k].title = sessions[k].title
          /\ Len(sessions') = Len(sessions) + 1 =>
                 \A k \in DOMAIN sessions :
                     sessions[k].title \in RenameTitles =>
                         sessions'[k + 1].title = sessions[k].title]_vars

\* C38: in every reachable state the active-session pointer is null or
\* the id of a session of the list.
C38_ActivePointerValid ==
    \/ activeSessionId = Null
    \/ \E k \in DOMAIN sessions : sessions[k].id = activeSessionId

\* C38 witness: the active session has just been deleted while other
\* sessions remain; the pointer is null.
C38_Witness ==
    /\ lastOp.op = "delete"
    /\ lastOp.flag
    /\ sessions # <<>>
    /\ activeSessionId = Null
    /\ sends # <<>>

\* C39: once the cleanup of the WebSocket effect has run, no reconnect
\* timer is pending and no new WebSocket is created.
C39_NoReconnectAfterCleanup ==
    /\ [](unmounted => reconnectTimer = 0)
    /\ [][unmounted => attempts' = attempts]_vars

====
